---- MODULE Spec2Model ----
(***************************************************************************)
(* git-run: run one command, then `git add .` and `git commit` the result  *)
(* with the message "run: <command>".  The model follows src/main.rs: one  *)
(* sequential flow (main) that launches subprocesses through run/errexit.  *)
(*                                                                         *)
(* Every blocking call (Command::output, Confirm::interact) is split into  *)
(* the step that starts it and the step in which it returns, so that a     *)
(* child that never exits is a behaviour of the model.                     *)
(*                                                                         *)
(* Option values are sequences: None == <<>>, Some(x) == <<x>>.            *)
(***************************************************************************)
EXTENDS Integers, Sequences, FiniteSets, TLC

VARIABLES args, env_SHELL, pc, child, launched, outputs, prompts, answers,
          message,
          permission, result, exit_code, index

vars == <<args, env_SHELL, pc, child, launched, outputs, prompts, answers,
          message,
          permission, result, exit_code, index>>

-----------------------------------------------------------------------------
(* Bounds of the model *)

\* longest COMMAND... list drawn for an invocation
MaxTokens == 2
\* largest exit status a child reports
MaxStatus == 2

None == <<>>
Some(x) == <<x>>

\* command-line tokens; "a b" is one token that contains a space
Words == {"echo", "hi", "a b"}

\* values of the positional COMMAND... the argument grammar lets through.
\* The field is a Vec, which clap derives as an optional positional:
\* num_args(1..) bounds the values of one occurrence, and a command line with
\* no token has no occurrence, so the empty list is parsed as well.
Commands == UNION {[1..n -> Words] : n \in 0..MaxTokens}

\* Args, as Args::parse() returns it
Args == [shell : BOOLEAN, yes : BOOLEAN, command : Commands]

\* the SHELL entry of the environment: unset, valid text, or non-text bytes
Unset == [set |-> FALSE, unicode |-> FALSE, raw |-> ""]
Environments ==
    {Unset,
     [set |-> TRUE, unicode |-> TRUE, raw |-> "/bin/sh"],
     [set |-> TRUE, unicode |-> FALSE, raw |-> "/bin/\\xFFsh"]}

\* ExitStatus::code(): Some(n), or None when the child was killed by a signal
ExitCodes == {Some(n) : n \in 0..MaxStatus} \cup {None}

\* what `git status --porcelain` can print
Stdouts == {"", " M file.txt\n"}

\* Confirm::interact(): Ok(true), Ok(false) or Err(_)
Answers == {"Ok(true)", "Ok(false)", "Err"}

-----------------------------------------------------------------------------
(* Commands and their stream dispositions *)

\* Command::new(program): no arguments, streams left at their defaults
Command(program) ==
    [program |-> program, args |-> <<>>,
     stdin |-> "default", stdout |-> "default", stderr |-> "default"]

with_args(command, more) == [command EXCEPT !.args = @ \o more]

git == Command("git")

\* variant: .stdout(Stdio::inherit()) is left out
visible_stdout_default(command) ==
    [command EXCEPT !.stdin = "null", !.stderr = "inherit"]

visible(command) ==
    [command EXCEPT !.stdin = "null", !.stdout = "inherit", !.stderr = "inherit"]

piped_stdout(command) == [command EXCEPT !.stdout = "piped"]

\* the streams Command::output() gives the child: a stream left at its default
\* is closed (stdin) or captured (stdout, stderr)
output_stdio(command) ==
    [stdin |-> IF command.stdin = "default" THEN "null" ELSE command.stdin,
     stdout |-> IF command.stdout = "default" THEN "piped" ELSE command.stdout,
     stderr |-> IF command.stderr = "default" THEN "piped" ELSE command.stderr]

get_program_and_args(command) == <<command.program, command.args>>

-----------------------------------------------------------------------------
(* Errors and results *)

Ok(v) == [ok |-> TRUE, val |-> Some(v), err |-> None]
Err(e) == [ok |-> FALSE, val |-> None, err |-> Some(e)]

LaunchError(command) ==
    [kind |-> "Launch",
     program |-> get_program_and_args(command)[1],
     args |-> get_program_and_args(command)[2]]

ExitError(command, code) ==
    [kind |-> "Exit",
     program |-> get_program_and_args(command)[1],
     args |-> get_program_and_args(command)[2],
     status |-> code]

DirtyError == [kind |-> "Dirty"]
MissingEnvError == [kind |-> "MissingEnv"]
CancelledError == [kind |-> "Cancelled"]
\* the clap error built by Args::command().error(ArgumentConflict, ..)
UsageError == [kind |-> "Usage"]
\* the panic of unreachable!
PanicError == [kind |-> "Panic"]

\* exit code of the process: main returned Ok(()), main returned Err (the
\* runtime prints the error and exits 1), clap's Error::exit() for a usage
\* error, and a panic
ExitSuccess == 0
ExitFailure == 1
ExitUsage == 2
ExitPanic == 101

\* Output of a finished child
Output(code, stdout) == [status |-> code, stdout |-> stdout]

\* run: Command::output() either fails to start the child or yields its Output
run(command, spawned, output) ==
    IF spawned THEN Ok(<<command, output>>) ELSE Err(LaunchError(command))

\* variant: code().unwrap_or(0), a child without an exit code counts as success
errexit_no_status_ok(pair) ==
    IF pair[2].status \in {Some(0), None}
    THEN Ok(pair[2])
    ELSE Err(ExitError(pair[1], pair[2].status))

\* variant: any exit code at all counts as success
errexit_any_code(pair) ==
    IF pair[2].status # None
    THEN Ok(pair[2])
    ELSE Err(ExitError(pair[1], pair[2].status))

\* errexit((command, output)): only Some(0) is a success
errexit(pair) ==
    IF pair[2].status = Some(0)
    THEN Ok(pair[2])
    ELSE Err(ExitError(pair[1], pair[2].status))

\* variant: the captured output is never looked at
is_empty_ignored(stdout) == TRUE

\* Vec<u8>::is_empty on the captured standard output
is_empty(stdout) == stdout = ""

-----------------------------------------------------------------------------
(* The environment and the commit message *)

\* variant: an unset SHELL is read as an empty value instead of NotPresent
env_var_or_default(e) ==
    IF e.unicode THEN [kind |-> "Ok", s |-> e.raw]
    ELSE [kind |-> "NotUnicode", s |-> e.raw]

\* env::var("SHELL")
env_var(e) ==
    IF ~e.set THEN [kind |-> "NotPresent", s |-> ""]
    ELSE IF e.unicode THEN [kind |-> "Ok", s |-> e.raw]
    ELSE [kind |-> "NotUnicode", s |-> e.raw]

\* variant: the items are joined last to first
RECURSIVE join_reversed(_, _)
join_reversed(items, sep) ==
    IF items = <<>> THEN ""
    ELSE IF Len(items) = 1 THEN items[1]
    ELSE items[Len(items)] \o sep \o join_reversed(SubSeq(items, 1, Len(items) - 1), sep)

\* itertools::join(iter, sep): the first item, then sep and an item, repeatedly
RECURSIVE join(_, _)
join(items, sep) ==
    IF items = <<>> THEN ""
    ELSE IF Len(items) = 1 THEN items[1]
    ELSE join(SubSeq(items, 1, Len(items) - 1), sep) \o sep \o items[Len(items)]

\* format!("run: {arg}")
shell_message(arg) == "run: " \o arg

\* format!("run: {}", itertools::join(args.command, " "))
direct_message(command) == "run: " \o join(command, " ")

\* variant: the shell is not asked to be interactive
shell_command_no_i(shell, arg) == with_args(Command(shell), <<"-c", arg>>)

\* Command::new(shell).arg("-i").arg("-c").arg(arg)
shell_command(shell, arg) == with_args(Command(shell), <<"-i", "-c", arg>>)

\* Command::new(first).args(rest)
direct_command(command) == with_args(Command(Head(command)), Tail(command))

\* format! of the prompt: the fixed words, then the message between a pair of
\* backquotes (kept as a field: the lexer rejects a backquote in a string)
prompt_text(m) == [words |-> "commit with message ", backquoted |-> m]

\* variant: .unwrap_or(true), a failed prompt takes the default answer
unwrap_or_true(answer) == answer # "Ok(false)"

\* .unwrap_or(false) on the answer of the prompt
unwrap_or_false(answer) == answer = "Ok(true)"

\* variant: the prompt is shown whatever yes is
prompt_always(a) == TRUE

\* `args.yes || ..`: the prompt is built and shown only when yes is false
prompt_needed(a) == ~a.yes

\* the four fixed git invocations
status_porcelain_command == piped_stdout(with_args(git, <<"status", "--porcelain">>))
add_command == visible(with_args(git, <<"add", ".">>))
\* variant: a plain `git status`
show_status_plain == visible(with_args(git, <<"status">>))
show_status_command == visible(with_args(git, <<"-c", "color.status=always", "status">>))
commit_command(m) == visible(with_args(git, <<"commit", "--message", m>>))

-----------------------------------------------------------------------------
(* The state *)

\* args       Args, as parsed                 env_SHELL  the SHELL entry
\* pc         the statement main is at        child      the child awaited
\* launched   commands handed to output()     prompts    prompts shown
\* outputs    the Output of each child that exited, in order
\* answers    what interact() returned, in order
\* message    the commit message, once built  permission once resolved
\* result     how main ended                  exit_code  of the process
\* index      what the repository's index holds, as far as this run changed it

Init ==
    /\ args \in Args
    /\ env_SHELL \in Environments
    /\ pc = "CheckClean"
    /\ child = None
    /\ launched = <<>>
    /\ outputs = <<>>
    /\ prompts = <<>>
    /\ answers = <<>>
    /\ message = None
    /\ permission = None
    /\ result = None
    /\ exit_code = None
    /\ index = "unstaged"

\* the process ends with this result and exit code
Finish(res, code) ==
    /\ pc' = "Done"
    /\ result' = Some(res)
    /\ exit_code' = Some(code)

\* bail!(..) or `?` on an Err: main returns the error
bail(e) == Finish(Err(e), ExitFailure)

\* run(command) up to the start of the child: output() either fails to start
\* it, and `?` returns the launch error, or blocks until the child exits
Spawn(command, wait) ==
    /\ launched' = Append(launched, command)
    /\ \E spawned \in BOOLEAN :
          LET r == run(command, spawned, Output(None, "")) IN
            IF r.ok
            THEN /\ child' = Some(command)
                 /\ pc' = wait
                 /\ UNCHANGED <<result, exit_code>>
            ELSE /\ child' = None
                 /\ bail(r.err[1])

\* what the awaited child hands back to errexit(run(..)?)
Returned(code, stdout) == errexit(run(child[1], TRUE, Output(code, stdout)).val[1])

-----------------------------------------------------------------------------
(* main, statement by statement *)

CheckCleanLaunch ==
    /\ pc = "CheckClean"
    /\ Spawn(status_porcelain_command, "CheckCleanWait")
    /\ UNCHANGED <<outputs, answers, args, env_SHELL, prompts, message, permission, index>>

CheckCleanReturn ==
    /\ pc = "CheckCleanWait"
    /\ \E code \in ExitCodes, stdout \in Stdouts :
          /\ outputs' = Append(outputs, Output(code, stdout))
          /\ LET r == Returned(code, stdout) IN
               IF ~r.ok THEN bail(r.err[1])
               ELSE IF ~is_empty(r.val[1].stdout) THEN bail(DirtyError)
               ELSE pc' = "Dispatch" /\ UNCHANGED <<result, exit_code>>
    /\ child' = None
    /\ UNCHANGED <<answers, args, env_SHELL, launched, prompts, message, permission, index>>

\* variant: (true, [arg, ..]), the tokens after the first are dropped
RunShellFirstToken ==
    /\ pc = "Dispatch"
    /\ args.shell /\ Len(args.command) >= 1
    /\ LET shell == env_var(env_SHELL) IN
         IF shell.kind = "NotPresent"
         THEN bail(MissingEnvError) /\ UNCHANGED <<child, launched>>
         ELSE Spawn(visible(shell_command(shell.s, args.command[1])), "RunShellWait")
    /\ UNCHANGED <<outputs, answers, args, env_SHELL, prompts, message, permission, index>>

\* (true, [arg])
RunShellLaunch ==
    /\ pc = "Dispatch"
    /\ args.shell /\ Len(args.command) = 1
    /\ LET shell == env_var(env_SHELL) IN
         IF shell.kind = "NotPresent"
         THEN bail(MissingEnvError) /\ UNCHANGED <<child, launched>>
         ELSE Spawn(visible(shell_command(shell.s, args.command[1])), "RunShellWait")
    /\ UNCHANGED <<outputs, answers, args, env_SHELL, prompts, message, permission, index>>

RunShellReturn ==
    /\ pc = "RunShellWait"
    /\ \E code \in ExitCodes :
          /\ outputs' = Append(outputs, Output(code, ""))
          /\ LET r == Returned(code, "") IN
               IF ~r.ok THEN bail(r.err[1]) /\ UNCHANGED message
               ELSE /\ message' = Some(shell_message(args.command[1]))
                    /\ pc' = "StageAll"
                    /\ UNCHANGED <<result, exit_code>>
    /\ child' = None
    /\ UNCHANGED <<answers, args, env_SHELL, launched, prompts, permission, index>>

\* (true, _)
UsageExit ==
    /\ pc = "Dispatch"
    /\ args.shell /\ Len(args.command) # 1
    /\ Finish(Err(UsageError), ExitUsage)
    /\ UNCHANGED <<outputs, answers, args, env_SHELL, child, launched, prompts, message, permission, index>>

\* variant: SHELL is resolved before the match, for both modes
RunDirectAfterShellLookup ==
    /\ pc = "Dispatch"
    /\ ~args.shell /\ Len(args.command) >= 1
    /\ LET shell == env_var(env_SHELL) IN
         IF shell.kind = "NotPresent"
         THEN bail(MissingEnvError) /\ UNCHANGED <<child, launched>>
         ELSE Spawn(visible(direct_command(args.command)), "RunDirectWait")
    /\ UNCHANGED <<outputs, answers, args, env_SHELL, prompts, message, permission, index>>

\* (false, [first, rest @ ..])
RunDirectLaunch ==
    /\ pc = "Dispatch"
    /\ ~args.shell /\ Len(args.command) >= 1
    /\ Spawn(visible(direct_command(args.command)), "RunDirectWait")
    /\ UNCHANGED <<outputs, answers, args, env_SHELL, prompts, message, permission, index>>

RunDirectReturn ==
    /\ pc = "RunDirectWait"
    /\ \E code \in ExitCodes :
          /\ outputs' = Append(outputs, Output(code, ""))
          /\ LET r == Returned(code, "") IN
               IF ~r.ok THEN bail(r.err[1]) /\ UNCHANGED message
               ELSE /\ message' = Some(direct_message(args.command))
                    /\ pc' = "StageAll"
                    /\ UNCHANGED <<result, exit_code>>
    /\ child' = None
    /\ UNCHANGED <<answers, args, env_SHELL, launched, prompts, permission, index>>

\* (false, _)
Unreachable ==
    /\ pc = "Dispatch"
    /\ ~args.shell /\ Len(args.command) = 0
    /\ Finish(Err(PanicError), ExitPanic)
    /\ UNCHANGED <<outputs, answers, args, env_SHELL, child, launched, prompts, message, permission, index>>

StageAllLaunch ==
    /\ pc = "StageAll"
    /\ Spawn(add_command, "StageAllWait")
    /\ UNCHANGED <<outputs, answers, args, env_SHELL, prompts, message, permission, index>>

StageAllReturn ==
    /\ pc = "StageAllWait"
    /\ \E code \in ExitCodes :
          /\ outputs' = Append(outputs, Output(code, ""))
          /\ LET r == Returned(code, "") IN
               IF ~r.ok THEN bail(r.err[1]) /\ UNCHANGED index
               ELSE /\ index' = "staged"
                    /\ pc' = "ShowStatus"
                    /\ UNCHANGED <<result, exit_code>>
    /\ child' = None
    /\ UNCHANGED <<answers, args, env_SHELL, launched, prompts, message, permission>>

ShowStatusLaunch ==
    /\ pc = "ShowStatus"
    /\ Spawn(show_status_command, "ShowStatusWait")
    /\ UNCHANGED <<outputs, answers, args, env_SHELL, prompts, message, permission, index>>

\* variant: the status display is best effort, its failure is not propagated
ShowStatusReturnIgnored ==
    /\ pc = "ShowStatusWait"
    /\ \E code \in ExitCodes :
          outputs' = Append(outputs, Output(code, ""))
    /\ pc' = "Permission"
    /\ child' = None
    /\ UNCHANGED <<result, exit_code, answers, args, env_SHELL, launched, prompts, message, permission, index>>

ShowStatusReturn ==
    /\ pc = "ShowStatusWait"
    /\ \E code \in ExitCodes :
          /\ outputs' = Append(outputs, Output(code, ""))
          /\ LET r == Returned(code, "") IN
               IF ~r.ok THEN bail(r.err[1])
               ELSE pc' = "Permission" /\ UNCHANGED <<result, exit_code>>
    /\ child' = None
    /\ UNCHANGED <<answers, args, env_SHELL, launched, prompts, message, permission, index>>

\* let permission = args.yes || Confirm::new()...interact(): up to the prompt
Permission ==
    /\ pc = "Permission"
    /\ IF prompt_needed(args)
       THEN /\ prompts' = Append(prompts, prompt_text(message[1]))
            /\ pc' = "Interact"
            /\ UNCHANGED permission
       ELSE /\ permission' = Some(TRUE)
            /\ pc' = "Match"
            /\ UNCHANGED prompts
    /\ UNCHANGED <<outputs, answers, args, env_SHELL, child, launched, message, result, exit_code, index>>

\* variant: the prompt gives up waiting and takes its default, yes
InteractReturnOrTimeout ==
    /\ pc = "Interact"
    /\ \/ \E answer \in Answers :
            /\ answers' = Append(answers, answer)
            /\ permission' = Some(unwrap_or_false(answer))
       \/ /\ permission' = Some(TRUE)
          /\ UNCHANGED answers
    /\ pc' = "Match"
    /\ UNCHANGED <<outputs, args, env_SHELL, child, launched, prompts, message, result, exit_code, index>>

\* interact() returns; .unwrap_or(false)
InteractReturn ==
    /\ pc = "Interact"
    /\ \E answer \in Answers :
          /\ answers' = Append(answers, answer)
          /\ permission' = Some(unwrap_or_false(answer))
    /\ pc' = "Match"
    /\ UNCHANGED <<outputs, args, env_SHELL, child, launched, prompts, message, result, exit_code, index>>

\* variant: the message is formatted again for the commit, from the first token
CommitLaunchReformatted ==
    /\ pc = "Match"
    /\ permission = Some(TRUE)
    /\ Spawn(commit_command(shell_message(args.command[1])), "CommitWait")
    /\ UNCHANGED <<outputs, answers, args, env_SHELL, prompts, message, permission, index>>

\* match permission { true => .. }
CommitLaunch ==
    /\ pc = "Match"
    /\ permission = Some(TRUE)
    /\ Spawn(commit_command(message[1]), "CommitWait")
    /\ UNCHANGED <<outputs, answers, args, env_SHELL, prompts, message, permission, index>>

\* variant: a declined commit is cleaned up with `git reset` before bailing
CancelledWithReset ==
    /\ pc = "Match"
    /\ permission = Some(FALSE)
    /\ launched' = Append(launched, visible(with_args(git, <<"reset">>)))
    /\ outputs' = Append(outputs, Output(Some(0), ""))
    /\ index' = "unstaged"
    /\ bail(CancelledError)
    /\ UNCHANGED <<answers, args, env_SHELL, child, prompts, message, permission>>

\* variant: a declined commit returns Ok(())
CancelledOk ==
    /\ pc = "Match"
    /\ permission = Some(FALSE)
    /\ Finish(Ok("()"), ExitSuccess)
    /\ UNCHANGED <<outputs, answers, args, env_SHELL, child, launched, prompts, message, permission, index>>

\* match permission { false => bail!("cancelled") }
Cancelled ==
    /\ pc = "Match"
    /\ permission = Some(FALSE)
    /\ bail(CancelledError)
    /\ UNCHANGED <<outputs, answers, args, env_SHELL, child, launched, prompts, message, permission, index>>

\* the commit returns; Ok(())
CommitReturn ==
    /\ pc = "CommitWait"
    /\ \E code \in ExitCodes :
          /\ outputs' = Append(outputs, Output(code, ""))
          /\ LET r == Returned(code, "") IN
               IF ~r.ok THEN bail(r.err[1]) /\ UNCHANGED index
               ELSE /\ index' = "committed"
                    /\ Finish(Ok("()"), ExitSuccess)
    /\ child' = None
    /\ UNCHANGED <<answers, args, env_SHELL, launched, prompts, message, permission>>

Next ==
    \/ CheckCleanLaunch \/ CheckCleanReturn
    \/ RunShellLaunch \/ RunShellReturn
    \/ UsageExit
    \/ RunDirectLaunch \/ RunDirectReturn
    \/ Unreachable
    \/ StageAllLaunch \/ StageAllReturn
    \/ ShowStatusLaunch \/ ShowStatusReturn
    \/ Permission \/ InteractReturn
    \/ CommitLaunch \/ Cancelled \/ CommitReturn

Spec == Init /\ [][Next]_vars

\* main runs on as long as it is not blocked, and (the hypothesis of the
\* termination property) every child exits and the prompt returns
LiveSpec == Init /\ [][Next]_vars /\ WF_vars(Next)

TypeOK ==
    /\ args \in Args
    /\ env_SHELL \in Environments
    /\ pc \in {"CheckClean", "CheckCleanWait", "Dispatch", "RunShellWait",
               "RunDirectWait", "StageAll", "StageAllWait", "ShowStatus",
               "ShowStatusWait", "Permission", "Interact", "Match",
               "CommitWait", "Done"}
    /\ Len(child) <= 1
    /\ Len(launched) <= 5
    /\ Len(outputs) <= Len(launched)
    /\ Len(prompts) <= 1
    /\ Len(answers) <= Len(prompts)
    /\ permission \in {None, Some(TRUE), Some(FALSE)}
    /\ exit_code \in {None, Some(ExitSuccess), Some(ExitFailure), Some(ExitUsage), Some(ExitPanic)}
    /\ index \in {"unstaged", "staged", "committed"}

-----------------------------------------------------------------------------
(* Properties *)

Ended == pc = "Done"

\* the kind of the error main ended with, "none" while running or on success
ErrorKind ==
    IF result # None /\ ~result[1].ok THEN result[1].err[1].kind ELSE "none"

Succeeded == Ended /\ result # None /\ result[1].ok

\* the i-th child was started and has exited with code 0
ExitedZero(i) == Len(outputs) >= i /\ outputs[i].status = Some(0)

\* programs and arguments of the launched commands, spelled out
IsStatusQuery(c) ==
    c.program = "git" /\ c.args = <<"status", "--porcelain">> /\ c.stdout = "piped"
IsAdd(c) == c.program = "git" /\ c.args = <<"add", ".">>
IsStatusDisplay(c) ==
    c.program = "git" /\ c.args = <<"-c", "color.status=always", "status">>
IsCommit(c) ==
    c.program = "git" /\ Len(c.args) = 3 /\ c.args[1] = "commit" /\ c.args[2] = "--message"

\* the tokens separated by single spaces, built from the first token on
RECURSIVE SpaceSeparated(_)
SpaceSeparated(tokens) ==
    IF Len(tokens) = 1 THEN Head(tokens)
    ELSE Head(tokens) \o " " \o SpaceSeparated(Tail(tokens))

\* C1: when the porcelain status query exits 0 with non-empty output, the run
\* has ended with the dirty-repository error, and the status query is the
\* only subprocess of the run: no user command, add, status display, prompt
\* or commit.
C1_DirtyStopsAtStatusQuery ==
    (ExitedZero(1) /\ outputs[1].stdout # "") =>
        /\ Ended
        /\ ErrorKind = "Dirty"
        /\ Len(launched) = 1 /\ IsStatusQuery(launched[1])
        /\ prompts = <<>>
        /\ message = None

C1_Witness ==
    /\ Ended
    /\ outputs = <<Output(Some(0), " M file.txt\n")>>
    /\ ErrorKind = "Dirty"

\* C2: a run that ends in success launched exactly five subprocesses, once
\* each and in this order: the porcelain status query (which printed
\* nothing), the user's command, git add ., the colorized git status, and
\* git commit --message <message>; it exits 0.  With --yes and the command
\* echo hi the message is "run: echo hi".
C2_SuccessSequence ==
    Succeeded =>
        /\ Len(launched) = 5 /\ Len(outputs) = 5
        /\ \A i \in 1..5 : outputs[i].status = Some(0)
        /\ IsStatusQuery(launched[1]) /\ outputs[1].stdout = ""
        /\ IF args.shell
           THEN launched[2].args[Len(launched[2].args)] = args.command[1]
           ELSE launched[2].program = args.command[1]
        /\ IsAdd(launched[3])
        /\ IsStatusDisplay(launched[4])
        /\ IsCommit(launched[5]) /\ launched[5].args[3] = message[1]
        /\ exit_code = Some(0)
        /\ (args = [shell |-> FALSE, yes |-> TRUE, command |-> <<"echo", "hi">>]
              => launched[5].args[3] = "run: echo hi")

C2_Witness ==
    /\ Succeeded
    /\ args = [shell |-> FALSE, yes |-> TRUE, command |-> <<"echo", "hi">>]
    /\ launched[5].args = <<"commit", "--message", "run: echo hi">>

\* C3: with --yes no prompt is ever shown and the run is never cancelled;
\* once git add . and the status display have both exited 0, the only step
\* left is the launch of the commit.
C3_YesNeverPrompts ==
    args.yes =>
        /\ prompts = <<>> /\ answers = <<>>
        /\ pc # "Interact"
        /\ permission # Some(FALSE)
        /\ ErrorKind # "Cancelled"
        /\ (pc = "Match" => ENABLED CommitLaunch /\ ~ENABLED Cancelled)
        /\ (ExitedZero(4) =>
              \/ pc \in {"Permission", "Match"}
              \/ Len(launched) = 5 /\ IsCommit(launched[5]))

C3_Witness ==
    /\ args.yes
    /\ ExitedZero(4)
    /\ Len(launched) = 5 /\ IsCommit(launched[5])
    /\ prompts = <<>>

\* C4: without --yes, once the prompt has answered no or has failed, the
\* commit is never launched, the only step left is the one that ends the run
\* with the "cancelled" error, and what git add . staged stays staged: the
\* last subprocess of the run is the status display.
C4_DeclinedOrFailedPromptCancels ==
    (~args.yes /\ answers # <<>> /\ answers[1] \in {"Ok(false)", "Err"}) =>
        /\ permission = Some(FALSE)
        /\ pc \in {"Match", "Done"}
        /\ (pc = "Match" => ENABLED Cancelled /\ ~ENABLED CommitLaunch)
        /\ (Ended => ErrorKind = "Cancelled" /\ exit_code = Some(ExitFailure))
        /\ Len(launched) = 4
        /\ IsAdd(launched[3]) /\ ExitedZero(3)
        /\ IsStatusDisplay(launched[4])
        /\ \A i \in 1..Len(launched) : ~IsCommit(launched[i])
        /\ index = "staged"

C4_Witness ==
    /\ ~args.yes
    /\ answers = <<"Err">>
    /\ Ended /\ ErrorKind = "Cancelled"
    /\ index = "staged"

\* C5: when the user's command exits with a status n other than 0, in
\* either mode, the run has ended with the exit error that carries the
\* program, the arguments and n of that command, and nothing was launched
\* after it: no add, no status display, no prompt, no commit.
C5_CommandFailureStops ==
    (Len(outputs) >= 2 /\ outputs[2].status \notin {Some(0), None}) =>
        /\ Ended
        /\ ErrorKind = "Exit"
        /\ result[1].err[1].status = outputs[2].status
        /\ IF args.shell
           THEN /\ result[1].err[1].program = env_SHELL.raw
                /\ result[1].err[1].args = <<"-i", "-c", args.command[1]>>
           ELSE /\ result[1].err[1].program = Head(args.command)
                /\ result[1].err[1].args = Tail(args.command)
        /\ Len(launched) = 2
        /\ prompts = <<>>
        /\ index = "unstaged"

C5_Witness ==
    /\ Ended
    /\ Len(outputs) = 2 /\ outputs[2].status = Some(2)
    /\ ErrorKind = "Exit" /\ result[1].err[1].status = Some(2)
    /\ args.command = <<"echo", "hi">>

\* the status query ran to the end, exited 0 and printed nothing
CleanCheckPassed == outputs # <<>> /\ outputs[1] = Output(Some(0), "")

\* C6, as stated: given --shell with more than one command token, when the
\* run exits via the usage-error path no subprocess has been launched.
C6_UsageErrorBeforeAnySubprocess ==
    (args.shell /\ Len(args.command) > 1 /\ ErrorKind = "Usage") =>
        launched = <<>>

\* C6, amended: given --shell with more than one command token, the
\* porcelain status query is the only subprocess ever launched (no user
\* command, add, status display, prompt or commit); the run ends via the
\* usage-error path, with exit code 2, exactly when that query exited 0 with
\* empty output, and otherwise with the query's launch or exit error or the
\* dirty-repository error.
C6_UsageErrorAfterCleanCheck ==
    (args.shell /\ Len(args.command) > 1) =>
        /\ Len(launched) <= 1
        /\ (launched # <<>> => IsStatusQuery(launched[1]))
        /\ prompts = <<>>
        /\ message = None
        /\ pc \in {"CheckClean", "CheckCleanWait", "Dispatch", "Done"}
        /\ (pc = "Dispatch" => ENABLED UsageExit)
        /\ (Ended =>
              IF CleanCheckPassed
              THEN ErrorKind = "Usage" /\ exit_code = Some(ExitUsage)
              ELSE ErrorKind \in {"Launch", "Exit", "Dirty"})

C6_Witness ==
    /\ args.shell /\ Len(args.command) = 2
    /\ Ended /\ ErrorKind = "Usage"
    /\ Len(launched) = 1 /\ IsStatusQuery(launched[1])

\* C7, as stated: given --shell with one command token and SHELL unset,
\* when the run fails with the missing-environment error no subprocess has
\* been launched.
C7_MissingShellBeforeAnySubprocess ==
    (args.shell /\ Len(args.command) = 1 /\ ~env_SHELL.set /\ ErrorKind = "MissingEnv") =>
        launched = <<>>

\* C7, amended: given --shell with one command token and SHELL unset, the
\* porcelain status query is the only subprocess ever launched; the run
\* ends with the missing-environment error exactly when that query exited 0
\* with empty output, and otherwise with the query's launch or exit error or
\* the dirty-repository error.  The shell is never launched.
C7_MissingShellAfterCleanCheck ==
    (args.shell /\ Len(args.command) = 1 /\ ~env_SHELL.set) =>
        /\ Len(launched) <= 1
        /\ (launched # <<>> => IsStatusQuery(launched[1]))
        /\ prompts = <<>>
        /\ message = None
        /\ pc \in {"CheckClean", "CheckCleanWait", "Dispatch", "Done"}
        /\ (Ended =>
              IF CleanCheckPassed
              THEN ErrorKind = "MissingEnv" /\ exit_code = Some(ExitFailure)
              ELSE ErrorKind \in {"Launch", "Exit", "Dirty"})

C7_Witness ==
    /\ args.shell /\ Len(args.command) = 1 /\ ~env_SHELL.set
    /\ Ended /\ ErrorKind = "MissingEnv"
    /\ Len(launched) = 1 /\ IsStatusQuery(launched[1])

\* C8: in a successful run without --shell, with tokens c1..cn, the commit
\* is launched with the message "run: " followed by c1..cn separated by
\* single spaces in their order, and the user's command was launched as
\* program c1 with exactly the arguments c2..cn, token for token.
C8_DirectMessageAndCommand ==
    (Succeeded /\ ~args.shell) =>
        /\ Len(args.command) >= 1
        /\ launched[5].args = <<"commit", "--message", "run: " \o SpaceSeparated(args.command)>>
        /\ launched[2].program = Head(args.command)
        /\ launched[2].args = Tail(args.command)
        /\ Len(launched[2].args) = Len(args.command) - 1

C8_Witness ==
    /\ Succeeded /\ ~args.shell
    /\ args.command = <<"echo", "a b">>
    /\ launched[2].args = <<"a b">>
    /\ launched[5].args[3] = "run: echo a b"

\* C9: in a successful run with --shell and the single token C, the commit
\* is launched with the message "run: " followed by C, and the user's
\* command was launched as the value of SHELL with the arguments -i, -c, C.
C9_ShellMessageAndCommand ==
    (Succeeded /\ args.shell) =>
        /\ Len(args.command) = 1
        /\ env_SHELL.set
        /\ launched[5].args = <<"commit", "--message", "run: " \o args.command[1]>>
        /\ launched[2].program = env_SHELL.raw
        /\ launched[2].args = <<"-i", "-c", args.command[1]>>

C9_Witness ==
    /\ Succeeded /\ args.shell
    /\ args.command = <<"a b">>
    /\ launched[2].program = "/bin/sh"
    /\ launched[2].args = <<"-i", "-c", "a b">>
    /\ launched[5].args[3] = "run: a b"

\* the commit subprocess was launched and exited with status 0
CommitExitedZero ==
    /\ Len(launched) = 5 /\ IsCommit(launched[5])
    /\ ExitedZero(5)

\* C10: the process has an exit code exactly when the run has ended, and the
\* code is 0 if and only if the commit subprocess was launched and exited
\* with status 0; every other end (usage error, dirty tree, missing SHELL,
\* launch or exit failure of a subprocess, cancellation) has a non-zero code.
C10_ExitZeroIffCommitted ==
    /\ (exit_code # None <=> Ended)
    /\ (Ended => (exit_code = Some(0) <=> CommitExitedZero))
    /\ (Ended /\ ErrorKind # "none" => exit_code # Some(0))
    /\ (CommitExitedZero => Ended /\ ErrorKind = "none")

C10_Witness ==
    /\ Ended
    /\ CommitExitedZero
    /\ exit_code = Some(0)
    /\ index = "committed"

\* the shell subprocess: the second launch of a run with --shell
ShellLaunched == args.shell /\ Len(launched) >= 2

\* C11: where the mode is dispatched the command has at least one element,
\* so the arm marked unreachable is never taken and no run ends in its
\* panic; and whenever the shell subprocess is launched the command has
\* exactly one element.
C11_CommandNonEmptyAtDispatch ==
    /\ (pc = "Dispatch" => Len(args.command) >= 1)
    /\ ErrorKind # "Panic"
    /\ ~ENABLED Unreachable
    /\ (ShellLaunched => Len(args.command) = 1)

\* The commands a run without --shell launches, in order, written from the
\* arguments alone
DirectSequence(a) ==
    <<[program |-> "git", args |-> <<"status", "--porcelain">>,
       stdin |-> "default", stdout |-> "piped", stderr |-> "default"]>>
    \o (IF a.command = <<>> THEN <<>>
        ELSE <<[program |-> Head(a.command), args |-> Tail(a.command),
                stdin |-> "null", stdout |-> "inherit", stderr |-> "inherit"],
               [program |-> "git", args |-> <<"add", ".">>,
                stdin |-> "null", stdout |-> "inherit", stderr |-> "inherit"],
               [program |-> "git", args |-> <<"-c", "color.status=always", "status">>,
                stdin |-> "null", stdout |-> "inherit", stderr |-> "inherit"],
               [program |-> "git",
                args |-> <<"commit", "--message", "run: " \o SpaceSeparated(a.command)>>,
                stdin |-> "null", stdout |-> "inherit", stderr |-> "inherit"]>>)

\* How an ended run without --shell ended, written from the arguments and
\* from what the children and the prompt returned: n commands were handed to
\* output(), outs are the Outputs of those that ran, ans the prompt's answers
DirectResult(a, n, outs, ans) ==
    LET k == Len(outs)
        seq == DirectSequence(a)
    IN  IF k < n
        THEN [kind |-> "Launch", program |-> seq[n].program, args |-> seq[n].args]
        ELSE IF outs[k].status # Some(0)
        THEN [kind |-> "Exit", program |-> seq[k].program, args |-> seq[k].args,
              status |-> outs[k].status]
        ELSE IF k = 1 /\ outs[1].stdout # "" THEN [kind |-> "Dirty"]
        ELSE IF k = 1 THEN [kind |-> "Panic"]
        ELSE IF k = 4 THEN [kind |-> "Cancelled"]
        ELSE [kind |-> "none"]

\* how the run ended, as one record
Outcome == IF Succeeded THEN [kind |-> "none"] ELSE result[1].err[1]

\* C12: SHELL is consulted only with --shell.  Without --shell the commands
\* launched and the final result are those given by the arguments and by
\* what the children and the prompt returned, whatever SHELL is (unset, text
\* or non-text).  With --shell a SHELL that is set, text or not, is the
\* program launched, and the missing-environment error occurs only when
\* SHELL is unset.
C12_ShellOnlyConsultedWithFlag ==
    /\ ~args.shell =>
          /\ Len(launched) <= Len(DirectSequence(args))
          /\ launched = SubSeq(DirectSequence(args), 1, Len(launched))
          /\ ErrorKind # "MissingEnv"
          /\ (Ended => Outcome = DirectResult(args, Len(launched), outputs, answers))
    /\ ShellLaunched =>
          /\ env_SHELL.set
          /\ launched[2] = [program |-> env_SHELL.raw,
                            args |-> <<"-i", "-c", args.command[1]>>,
                            stdin |-> "null", stdout |-> "inherit", stderr |-> "inherit"]
    /\ ErrorKind = "MissingEnv" => args.shell /\ ~env_SHELL.set
    /\ (args.shell /\ Len(args.command) = 1 /\ CleanCheckPassed /\ Len(outputs) = 1 /\ Ended)
          => (ErrorKind = "MissingEnv" <=> ~env_SHELL.set)

C12_Witness ==
    /\ ~args.shell
    /\ ~env_SHELL.set
    /\ Succeeded
    /\ Len(launched) = 5

\* the last step of the run could not be started
LaunchFailed == child = None /\ Len(launched) > Len(outputs)

\* C13: fail fast, no retries.  At most five subprocesses are launched, the
\* i-th launch being the i-th step (status query, user command, add, status
\* display, commit), so no step is launched twice, and at most one prompt is
\* shown.  A step is launched, and the prompt shown, only after every step
\* before it exited 0.  Once a step fails to launch or exits with a status
\* other than 0 the run has ended with that failure as its error, and that
\* step is the last launch of the run.
C13_FailFastNoRetry ==
    /\ Len(launched) <= 5
    /\ Len(prompts) <= 1
    /\ (Len(launched) >= 1 => IsStatusQuery(launched[1]))
    /\ (Len(launched) >= 2 =>
          IF args.shell
          THEN launched[2].args = <<"-i", "-c", args.command[1]>>
          ELSE launched[2].program = Head(args.command)
               /\ launched[2].args = Tail(args.command))
    /\ (Len(launched) >= 3 => IsAdd(launched[3]))
    /\ (Len(launched) >= 4 => IsStatusDisplay(launched[4]))
    /\ (Len(launched) >= 5 => IsCommit(launched[5]))
    /\ \A i \in 1..Len(launched) : \A j \in 1..(i - 1) : ExitedZero(j)
    /\ (prompts # <<>> => ExitedZero(4))
    /\ \A i \in 1..Len(outputs) :
          outputs[i].status # Some(0) =>
             /\ Ended
             /\ Len(launched) = i /\ Len(outputs) = i
             /\ ErrorKind = "Exit"
             /\ result[1].err[1].program = launched[i].program
             /\ result[1].err[1].args = launched[i].args
             /\ result[1].err[1].status = outputs[i].status
             /\ Len(answers) = Len(prompts)
    /\ LaunchFailed =>
          /\ Ended
          /\ Len(launched) = Len(outputs) + 1
          /\ ErrorKind = "Launch"
          /\ result[1].err[1].program = launched[Len(launched)].program
          /\ result[1].err[1].args = launched[Len(launched)].args
          /\ Len(answers) = Len(prompts)

C13_Witness ==
    /\ Ended
    /\ Len(outputs) = 4 /\ outputs[4].status = Some(1)
    /\ Len(launched) = 4
    /\ ErrorKind = "Exit"
    /\ prompts = <<>>

\* the run ended with the launch or exit error of its i-th step
StepFailed(i) ==
    Ended /\ i = Len(launched) /\ ErrorKind \in {"Launch", "Exit"}

\* C14: a step is a success exactly when its child was started and exited
\* with code 0.  A child that could not be started gives the launch error
\* with the program and arguments; a code other than 0 gives the exit error
\* with program, arguments and the code; no code at all gives the exit error
\* "with no status" and is never a success.  A status query with a code
\* other than 0, or none, is reported as this exit error and not as a dirty
\* repository, whatever it printed.
C14_SuccessIsExitZero ==
    /\ \A i \in 1..Len(outputs) :
          /\ outputs[i].status = Some(0) => ~StepFailed(i)
          /\ outputs[i].status # Some(0) =>
                /\ StepFailed(i)
                /\ result[1].err[1] =
                      [kind |-> "Exit", program |-> launched[i].program,
                       args |-> launched[i].args, status |-> outputs[i].status]
    /\ LaunchFailed =>
          /\ StepFailed(Len(launched))
          /\ result[1].err[1] =
                [kind |-> "Launch", program |-> launched[Len(launched)].program,
                 args |-> launched[Len(launched)].args]
    /\ (ErrorKind = "Exit" =>
          Len(outputs) = Len(launched) /\ outputs[Len(outputs)].status # Some(0))
    /\ (ErrorKind = "Launch" => LaunchFailed)
    /\ (ErrorKind = "Dirty" => outputs = <<Output(Some(0), outputs[1].stdout)>>)
    /\ (Succeeded => \A i \in 1..5 : ExitedZero(i))

C14_Witness ==
    /\ Ended
    /\ outputs = <<Output(None, " M file.txt\n")>>
    /\ result[1].err[1] =
          [kind |-> "Exit", program |-> "git",
           args |-> <<"status", "--porcelain">>, status |-> None]

\* one of the four fixed git invocations
IsFixedGitCommand(c) ==
    IsStatusQuery(c) \/ IsAdd(c) \/ IsStatusDisplay(c) \/ IsCommit(c)

\* what holds of the index and of the launches in every state
NoRollbackState ==
    /\ Len(launched) <= 5
    /\ \A i \in 1..Len(launched) : i # 2 => IsFixedGitCommand(launched[i])
    /\ (ExitedZero(3) => index \in {"staged", "committed"})
    /\ (index = "committed" <=> CommitExitedZero)
    /\ (Ended /\ ExitedZero(3) /\ ~Succeeded =>
          /\ index = "staged"
          /\ ErrorKind \in {"Launch", "Exit", "Cancelled"}
          /\ IsAdd(launched[3])
          /\ \A i \in 4..Len(launched) : IsStatusDisplay(launched[i]) \/ IsCommit(launched[i]))

\* C15: no rollback.  Once git add . has succeeded no step of the run takes
\* the index back: a staged index stays staged until the commit succeeds.
\* When the status display fails, the prompt is declined or fails, or the
\* commit fails to launch or exits with a status other than 0, the run ends
\* with the index still staged.  Apart from the user's command, every
\* subprocess of a run is one of the four fixed git invocations.
C15_NoRollback ==
    /\ []NoRollbackState
    /\ [][index = "staged" => index' \in {"staged", "committed"}]_vars

C15_Witness ==
    /\ Ended
    /\ Len(launched) = 5 /\ Len(outputs) = 4
    /\ ErrorKind = "Launch"
    /\ index = "staged"

\* main is inside output(), waiting for a child to exit
AwaitingChild ==
    pc \in {"CheckCleanWait", "RunShellWait", "RunDirectWait", "StageAllWait",
            "ShowStatusWait", "CommitWait"}

\* main is inside interact(), waiting for the prompt to return
AwaitingPrompt == pc = "Interact"

\* C16: termination.  When every child exits and the prompt returns, every
\* run reaches a terminal state, having launched at most five subprocesses
\* and shown at most one prompt.  While main waits for a child or for the
\* prompt, the only step there is is the return of that child or prompt:
\* nothing is launched, nothing is shown and the run does not end by itself,
\* so a child or prompt that never returns blocks the run where it is.
C16_Termination ==
    /\ <>Ended
    /\ [](Len(launched) <= 5 /\ Len(prompts) <= 1)
    /\ [](AwaitingChild => child # None /\ Len(launched) = Len(outputs) + 1)
    /\ [][AwaitingChild =>
            /\ outputs' # outputs /\ SubSeq(outputs', 1, Len(outputs)) = outputs
            /\ launched' = launched /\ prompts' = prompts]_vars
    /\ [][AwaitingPrompt =>
            /\ answers' # answers /\ SubSeq(answers', 1, Len(answers)) = answers
            /\ launched' = launched /\ prompts' = prompts /\ ~Ended']_vars
    /\ [][Ended => UNCHANGED vars]_vars

C16_Witness ==
    /\ Ended
    /\ Len(launched) = 5 /\ Len(outputs) = 5
    /\ Len(prompts) = 1 /\ Len(answers) = 1

\* C17: the commit message exists only once the user's command has exited 0,
\* it is the message of the mode that ran, and once set it never changes; in
\* every run where the prompt is shown and the commit is launched, the
\* message shown between the backquotes of the prompt is the string passed
\* to git commit --message.
C17_MessageBuiltOnce ==
    /\ [](message # None => ExitedZero(2))
    /\ [](ExitedZero(2) => message # None)
    /\ [][message # None => message' = message]_vars
    /\ [](prompts # <<>> =>
            /\ prompts[1].words = "commit with message "
            /\ prompts[1].backquoted = message[1])
    /\ []((prompts # <<>> /\ Len(launched) = 5) =>
            /\ launched[5].args[2] = "--message"
            /\ launched[5].args[3] = prompts[1].backquoted)
    /\ [](Len(launched) = 5 => launched[5].args[3] = message[1])

C17_Witness ==
    /\ Len(launched) = 5
    /\ prompts # <<>> /\ answers = <<"Ok(true)">>
    /\ prompts[1].backquoted = "run: echo hi"
    /\ launched[5].args[3] = "run: echo hi"

\* C18: stream disposition.  The porcelain status query is the only
\* subprocess whose standard output is captured, and the only one whose
\* output main looks at; every other subprocess (the user's command in
\* either mode, add, status display, commit) gets an empty input stream and
\* the terminal's output and error streams.
C18_OnlyStatusQueryCaptured ==
    /\ \A i \in 1..Len(launched) :
          IF i = 1
          THEN IsStatusQuery(launched[i]) /\ output_stdio(launched[i]).stdout = "piped"
          ELSE output_stdio(launched[i]) =
                  [stdin |-> "null", stdout |-> "inherit", stderr |-> "inherit"]
    /\ \A i \in 2..Len(outputs) : outputs[i].stdout = ""
    /\ (ErrorKind = "Dirty" => Len(outputs) = 1 /\ outputs[1].stdout # "")

C18_Witness ==
    /\ args.shell
    /\ Len(launched) = 5
    /\ launched[2].program = "/bin/sh"
    /\ output_stdio(launched[2]).stdout = "inherit"
    /\ output_stdio(launched[5]).stdin = "null"

====
